---- MODULE Spec2Model ----
(***************************************************************************)
(* State-machine model of the scholarship search service: the request      *)
(* handler app.post('/api/search-scholarships') and the response-parsing   *)
(* pipeline behind it, in its two variants                                 *)
(*   "rich"   : src/server.js          (parseScholarshipResponse)          *)
(*   "simple" : src/unnamed/part_000   (parseScholarships)                 *)
(* A JavaScript string is a string; the regular expressions of the source *)
(* are data (sequences of atoms) run over the string's characters by a     *)
(* backtracking matcher with JavaScript's priorities (leftmost start,      *)
(* greedy repetition, ordered alternation).                                *)
(***************************************************************************)
EXTENDS Integers, Sequences, FiniteSets, TLC

(***************************************************************************)
(* Characters                                                              *)
(***************************************************************************)
\* U+20B9, the rupee sign: strings are kept in ASCII, and the sign is written
\* as a character that is, like it, one code unit, no word character, no
\* white space and named by no pattern of the source; the texts of the
\* model hold no dollar sign of their own
Rupee == "$"

\* the characters of a string, as a sequence of one-character strings
Chars(str) == [i \in 1..Len(str) |-> SubSeq(str, i, i)]

RECURSIVE FromChars(_)
\* the string of a sequence of characters (joined by halves)
FromChars(cs) ==
    IF Len(cs) = 0 THEN ""
    ELSE IF Len(cs) = 1 THEN cs[1]
    ELSE FromChars(SubSeq(cs, 1, Len(cs) \div 2))
         \o FromChars(SubSeq(cs, Len(cs) \div 2 + 1, Len(cs)))

\* String.prototype.substring, offsets from 0
Slice(str, from, to) == IF to <= from THEN "" ELSE SubSeq(str, from + 1, to)

UpperSeq == Chars("ABCDEFGHIJKLMNOPQRSTUVWXYZ")
LowerSeq == Chars("abcdefghijklmnopqrstuvwxyz")
Upper == {UpperSeq[i] : i \in 1..26}
Lower == {LowerSeq[i] : i \in 1..26}
Digit == {"0", "1", "2", "3", "4", "5", "6", "7", "8", "9"}
\* \s
Space == {" ", "\t", "\n", "\r"}
\* line terminators, excluded by "."
LineEnd == {"\n", "\r"}
\* \w
WordCh == Upper \cup Lower \cup Digit \cup {"_"}

LowerOf == [c \in Upper |-> LowerSeq[CHOOSE i \in 1..26 : UpperSeq[i] = c]]

\* String.prototype.toLowerCase, one character
LowerCh(c) == IF c \in Upper THEN LowerOf[c] ELSE c

\* String.prototype.toLowerCase
toLowerCase(s) == FromChars([i \in 1..Len(s) |-> LowerCh(SubSeq(s, i, i))])

\* does sub occur in s at 0-based offset pos
OccursAt(s, sub, pos) == pos + Len(sub) <= Len(s) /\ Slice(s, pos, pos + Len(sub)) = sub

\* String.prototype.includes
includes(s, sub) == \E pos \in 0..(Len(s) - Len(sub)) : OccursAt(s, sub, pos)

\* String.prototype.startsWith
startsWith(s, sub) == OccursAt(s, sub, 0)

\* String.prototype.trim
trim(s) ==
    LET keep == {i \in 1..Len(s) : SubSeq(s, i, i) \notin Space}
    IN  IF keep = {} THEN ""
        ELSE LET lo == CHOOSE i \in keep : \A j \in keep : i <= j
                 hi == CHOOSE i \in keep : \A j \in keep : i >= j
             IN  SubSeq(s, lo, hi)

\* Array.prototype.slice(0, n)
SliceTo(s, n) == SubSeq(s, 1, IF Len(s) < n THEN Len(s) ELSE n)

(***************************************************************************)
(* Regular expressions.  A pattern is a sequence of atoms:                 *)
(*   lit : a literal string (ci: compared case-insensitively, flag i)      *)
(*   cls : min..max greedy repetitions of a character class                *)
(*         (neg: the class is negated)                                     *)
(*   alt : ordered alternation of sub-patterns; x? is alt(x, empty)        *)
(*   gs, ge : start and end of capture group 1                             *)
(*   bol : ^ under flag m        wb : \b        la : (?= ... )             *)
(* The matcher reads t, the characters of the text; offsets count from 0.  *)
(***************************************************************************)
Unbounded == 100000

Lit(str) == [t |-> "lit", s |-> Chars(str), ci |-> FALSE]
LitI(str) == [t |-> "lit", s |-> Chars(str), ci |-> TRUE]
Cls(set, lo, hi) == [t |-> "cls", set |-> set, neg |-> FALSE, min |-> lo, max |-> hi]
NCls(set, lo, hi) == [t |-> "cls", set |-> set, neg |-> TRUE, min |-> lo, max |-> hi]
Alt(alts) == [t |-> "alt", alts |-> alts]
Opt(re) == Alt(<< re, <<>> >>)
GS == [t |-> "gs"]
GE == [t |-> "ge"]
BOL == [t |-> "bol"]
WB == [t |-> "wb"]
LA(re) == [t |-> "la", re |-> re]

InCls(a, c) == IF a.neg THEN c \notin a.set ELSE c \in a.set

LitAt(a, t, pos) ==
    /\ pos + Len(a.s) <= Len(t)
    /\ \A j \in 1..Len(a.s) :
          IF a.ci THEN LowerCh(t[pos + j]) = LowerCh(a.s[j]) ELSE t[pos + j] = a.s[j]

RECURSIVE RunIn(_, _, _, _)
\* the number of leading characters of class a in t[lo..hi], by halves
RunIn(a, t, lo, hi) ==
    IF lo > hi THEN 0
    ELSE IF lo = hi THEN (IF InCls(a, t[lo]) THEN 1 ELSE 0)
    ELSE LET mid == (lo + hi) \div 2
             l == RunIn(a, t, lo, mid)
         IN  IF l < mid - lo + 1 THEN l ELSE l + RunIn(a, t, mid + 1, hi)

\* the number of characters of class a from offset pos on, at most left
Run(a, t, pos, left) ==
    RunIn(a, t, pos + 1, IF pos + left < Len(t) THEN pos + left ELSE Len(t))

IsWord(t, i) == i >= 1 /\ i <= Len(t) /\ t[i] \in WordCh

NoMatch == <<>>

RECURSIVE Match(_, _, _)
RECURSIVE TryRep(_, _, _, _, _)
RECURSIVE TryAlt(_, _, _, _, _)

\* the match of pattern re anchored at offset pos the backtracking matcher
\* finds first: <<end, group 1 start, group 1 end>>, or NoMatch
Match(re, t, pos) ==
    IF Len(re) = 0 THEN <<pos, -1, -1>>
    ELSE LET a == re[1]
             rest == Tail(re)
         IN  CASE a.t = "lit" ->
                    IF LitAt(a, t, pos) THEN Match(rest, t, pos + Len(a.s)) ELSE NoMatch
               [] a.t = "cls" ->
                    LET r == Run(a, t, pos, a.max)
                    IN  IF r < a.min THEN NoMatch ELSE TryRep(rest, t, pos, r, a.min)
               [] a.t = "alt" -> TryAlt(a.alts, 1, rest, t, pos)
               [] a.t = "gs" ->
                    LET m == Match(rest, t, pos)
                    IN  IF m = NoMatch THEN NoMatch ELSE <<m[1], pos, m[3]>>
               [] a.t = "ge" ->
                    LET m == Match(rest, t, pos)
                    IN  IF m = NoMatch THEN NoMatch ELSE <<m[1], m[2], pos>>
               [] a.t = "bol" ->
                    IF pos = 0 \/ t[pos] \in LineEnd THEN Match(rest, t, pos) ELSE NoMatch
               [] a.t = "wb" ->
                    IF IsWord(t, pos) # IsWord(t, pos + 1) THEN Match(rest, t, pos)
                    ELSE NoMatch
               [] a.t = "la" ->
                    IF Match(a.re, t, pos) # NoMatch THEN Match(rest, t, pos) ELSE NoMatch

\* greedy repetition: of lo..hi characters the most first, then fewer
\* (the range is searched by halves, the upper half first)
TryRep(rest, t, pos, hi, lo) ==
    IF lo = hi THEN Match(rest, t, pos + hi)
    ELSE LET mid == (lo + hi) \div 2
             m == TryRep(rest, t, pos, hi, mid + 1)
         IN  IF m # NoMatch THEN m ELSE TryRep(rest, t, pos, mid, lo)

\* ordered alternation: alternative k first, then the later ones
TryAlt(alts, k, rest, t, pos) ==
    IF k > Len(alts) THEN NoMatch
    ELSE LET m == Match(alts[k] \o rest, t, pos)
         IN  IF m # NoMatch THEN m ELSE TryAlt(alts, k + 1, rest, t, pos)

RECURSIVE SearchIn(_, _, _, _)
\* the leftmost match starting at an offset in lo..hi (searched by halves,
\* the lower half first): <<start, end, g1 start, g1 end>>
SearchIn(re, t, lo, hi) ==
    IF lo = hi
    THEN LET m == Match(re, t, lo)
         IN  IF m # NoMatch THEN <<lo>> \o m ELSE NoMatch
    ELSE LET mid == (lo + hi) \div 2
             m == SearchIn(re, t, lo, mid)
         IN  IF m # NoMatch THEN m ELSE SearchIn(re, t, mid + 1, hi)

\* String.prototype.match without flag g (and element 0 of the result with it)
Search(re, text) == SearchIn(re, Chars(text), 0, Len(text))

Found(m) == m # NoMatch
\* match[0]
Whole(text, m) == Slice(text, m[1], m[2])
HasGroup(m) == m[3] >= 0 /\ m[4] >= 0
\* match[1]
Group(text, m) == Slice(text, m[3], m[4])

RECURSIVE SplitFrom(_, _, _, _)
\* String.prototype.split by a pattern without capture groups: from piece
\* start p, the first offset q >= p where the pattern matches with an end
\* other than p closes the piece
SplitFrom(text, ends, p, acc) ==
    LET cut == {q \in p..(Len(text) - 1) : ends[q] # NoMatch /\ ends[q][1] # p}
    IN  IF cut = {} THEN Append(acc, Slice(text, p, Len(text)))
        ELSE LET q == CHOOSE x \in cut : \A y \in cut : x <= y
             IN  SplitFrom(text, ends, ends[q][1], Append(acc, Slice(text, p, q)))

Split(re, text) ==
    LET t == Chars(text)
    IN  IF Len(text) = 0 THEN (IF Match(re, t, 0) # NoMatch THEN <<>> ELSE <<text>>)
        ELSE SplitFrom(text, [q \in 0..(Len(text) - 1) |-> Match(re, t, q)], 0, <<>>)

(***************************************************************************)
(* Field extractors, richer variant (src/server.js)                        *)
(***************************************************************************)
\* (?:[Ss]cholarship|[Gg]rant|[Ff]ellowship|[Aa]ward|[Ss]cheme|[Yy]ojana)
KeywordAlt6 ==
    Alt(<< <<Cls({"S", "s"}, 1, 1), Lit("cholarship")>>,
           <<Cls({"G", "g"}, 1, 1), Lit("rant")>>,
           <<Cls({"F", "f"}, 1, 1), Lit("ellowship")>>,
           <<Cls({"A", "a"}, 1, 1), Lit("ward")>>,
           <<Cls({"S", "s"}, 1, 1), Lit("cheme")>>,
           <<Cls({"Y", "y"}, 1, 1), Lit("ojana")>> >>)

\* the same under flag i
KeywordAlt6I ==
    Alt(<< <<LitI("scholarship")>>, <<LitI("grant")>>, <<LitI("fellowship")>>,
           <<LitI("award")>>, <<LitI("scheme")>>, <<LitI("yojana")>> >>)

\* (?:[Ss]cholarship|[Gg]rant|[Ff]ellowship|[Aa]ward|[Ss]cheme)
KeywordAlt5 ==
    Alt(<< <<Cls({"S", "s"}, 1, 1), Lit("cholarship")>>,
           <<Cls({"G", "g"}, 1, 1), Lit("rant")>>,
           <<Cls({"F", "f"}, 1, 1), Lit("ellowship")>>,
           <<Cls({"A", "a"}, 1, 1), Lit("ward")>>,
           <<Cls({"S", "s"}, 1, 1), Lit("cheme")>> >>)

NotDotNL == {".", "\n"}
\* [A-Za-z\s&-]
NameCh == Upper \cup Lower \cup Space \cup {"&", "-"}
\* [\d,.\s]
NumCh == Digit \cup {",", "."} \cup Space
\* [:\s]
ColonSp == {":"} \cup Space

RichNamePatterns ==
    << \* /(?:\d+\.|\*\*|##)\s*([^.\n]+(?:[Ss]cholarship|...|[Yy]ojana))/i
       << Alt(<< <<Cls(Digit, 1, Unbounded), Lit(".")>>, <<Lit("**")>>, <<Lit("##")>> >>),
          Cls(Space, 0, Unbounded), GS, NCls(NotDotNL, 1, Unbounded), KeywordAlt6I, GE >>,
       \* /([A-Z][A-Za-z\s&-]{8,60}(?:[Ss]cholarship|...|[Yy]ojana))/
       << GS, Cls(Upper, 1, 1), Cls(NameCh, 8, 60), KeywordAlt6, GE >>,
       \* /^([A-Z][^.\n]{10,100}(?:[Ss]cholarship|...|[Ss]cheme))/m
       << BOL, GS, Cls(Upper, 1, 1), NCls(NotDotNL, 10, 100), KeywordAlt5, GE >> >>

\* name.replace(/^(The |A )/i, '')
StripArticle(name) ==
    IF LitAt(LitI("The "), Chars(name), 0) THEN Slice(name, 4, Len(name))
    ELSE IF LitAt(LitI("A "), Chars(name), 0) THEN Slice(name, 2, Len(name))
    ELSE name

\* return 'Educational Opportunity'
RichDefaultName == "Educational Opportunity"

RECURSIVE RichNameFrom(_, _)
RECURSIVE RichNameTake(_, _, _, _)
\* the patterns are tried in order, from pattern k on
RichNameFrom(text, k) ==
    IF k > Len(RichNamePatterns) THEN RichDefaultName
    ELSE LET m == Search(RichNamePatterns[k], text)
         IN  IF Found(m) /\ Len(Group(text, m)) > 0
             THEN RichNameTake(text, k, m, StripArticle(trim(Group(text, m))))
             ELSE RichNameFrom(text, k + 1)

\* if (name.length > 10 && name.length < 150) return name
RichNameTake(text, k, m, name) ==
    IF Len(name) > 10 /\ Len(name) < 150 THEN name ELSE RichNameFrom(text, k + 1)

extractScholarshipName(text) == RichNameFrom(text, 1)

RichAmountPatterns ==
    << \* /₹[\d,.\s]+(?:\s*(?:lakh|crore|per year|per month|annually|monthly))?/gi
       << Lit(Rupee), Cls(NumCh, 1, Unbounded),
          Opt(<< Cls(Space, 0, Unbounded),
                 Alt(<< <<LitI("lakh")>>, <<LitI("crore")>>, <<LitI("per year")>>,
                        <<LitI("per month")>>, <<LitI("annually")>>, <<LitI("monthly")>> >>) >>) >>,
       \* /Rs\.?\s*[\d,.\s]+(?:\s*(?:lakh|crore|per year|per month|annually))?/gi
       << LitI("Rs"), Opt(<<Lit(".")>>), Cls(Space, 0, Unbounded), Cls(NumCh, 1, Unbounded),
          Opt(<< Cls(Space, 0, Unbounded),
                 Alt(<< <<LitI("lakh")>>, <<LitI("crore")>>, <<LitI("per year")>>,
                        <<LitI("per month")>>, <<LitI("annually")>> >>) >>) >>,
       \* /INR\s*[\d,.\s]+/gi
       << LitI("INR"), Cls(Space, 0, Unbounded), Cls(NumCh, 1, Unbounded) >>,
       \* /up to\s*₹?[\d,.\s]+/gi
       << LitI("up to"), Cls(Space, 0, Unbounded), Opt(<<Lit(Rupee)>>),
          Cls(NumCh, 1, Unbounded) >>,
       \* /amount[:\s]*₹?[\d,.\s]+(?:\s*(?:lakh|crore|per year))?/gi
       << LitI("amount"), Cls(ColonSp, 0, Unbounded), Opt(<<Lit(Rupee)>>),
          Cls(NumCh, 1, Unbounded),
          Opt(<< Cls(Space, 0, Unbounded),
                 Alt(<< <<LitI("lakh")>>, <<LitI("crore")>>, <<LitI("per year")>> >>) >>) >> >>

RECURSIVE RichAmountFrom(_, _)
\* text.match of a pattern with flag g starts at index 0 and returns every
\* match; matches[0] is the leftmost one
RichAmountFrom(text, k) ==
    IF k > Len(RichAmountPatterns) THEN "Amount varies"
    ELSE LET m == Search(RichAmountPatterns[k], text)
         IN  IF Found(m) THEN trim(Whole(text, m)) ELSE RichAmountFrom(text, k + 1)

RichExtractAmount(text) == RichAmountFrom(text, 1)

RichEligibilityPatterns ==
    << \* /eligibility[:\s]*([^.\n]{20,150})/i
       << LitI("eligibility"), Cls(ColonSp, 0, Unbounded), GS, NCls(NotDotNL, 20, 150), GE >>,
       \* /eligible[:\s]*([^.\n]{20,150})/i
       << LitI("eligible"), Cls(ColonSp, 0, Unbounded), GS, NCls(NotDotNL, 20, 150), GE >>,
       \* /criteria[:\s]*([^.\n]{20,150})/i
       << LitI("criteria"), Cls(ColonSp, 0, Unbounded), GS, NCls(NotDotNL, 20, 150), GE >>,
       \* /requirements?[:\s]*([^.\n]{20,150})/i
       << LitI("requirement"), Opt(<<LitI("s")>>), Cls(ColonSp, 0, Unbounded), GS,
          NCls(NotDotNL, 20, 150), GE >>,
       \* /for\s+([^.\n]{25,120}(?:students|candidates))/i
       << LitI("for"), Cls(Space, 1, Unbounded), GS, NCls(NotDotNL, 25, 120),
          Alt(<< <<LitI("students")>>, <<LitI("candidates")>> >>), GE >> >>

RECURSIVE RichEligibilityFrom(_, _)
RichEligibilityFrom(text, k) ==
    IF k > Len(RichEligibilityPatterns)
    THEN "Check official website for detailed eligibility criteria"
    ELSE LET m == Search(RichEligibilityPatterns[k], text)
         IN  IF Found(m) /\ Len(Group(text, m)) > 0 /\ Len(trim(Group(text, m))) > 20
             THEN trim(Group(text, m))
             ELSE RichEligibilityFrom(text, k + 1)

RichExtractEligibility(text) == RichEligibilityFrom(text, 1)

\* (?:January|...|December)
MonthAlt ==
    Alt(<< <<Lit("January")>>, <<Lit("February")>>, <<Lit("March")>>, <<Lit("April")>>,
           <<Lit("May")>>, <<Lit("June")>>, <<Lit("July")>>, <<Lit("August")>>,
           <<Lit("September")>>, <<Lit("October")>>, <<Lit("November")>>,
           <<Lit("December")>> >>)

MonthAltI ==
    Alt(<< <<LitI("January")>>, <<LitI("February")>>, <<LitI("March")>>, <<LitI("April")>>,
           <<LitI("May")>>, <<LitI("June")>>, <<LitI("July")>>, <<LitI("August")>>,
           <<LitI("September")>>, <<LitI("October")>>, <<LitI("November")>>,
           <<LitI("December")>> >>)

RichDeadlinePatterns ==
    << \* /deadline[:\s]*([^.\n]{10,60})/i
       << LitI("deadline"), Cls(ColonSp, 0, Unbounded), GS, NCls(NotDotNL, 10, 60), GE >>,
       \* /due[:\s]*(by\s+[^.\n]{8,50})/i
       << LitI("due"), Cls(ColonSp, 0, Unbounded), GS, LitI("by"), Cls(Space, 1, Unbounded),
          NCls(NotDotNL, 8, 50), GE >>,
       \* /apply by[:\s]*([^.\n]{10,50})/i
       << LitI("apply by"), Cls(ColonSp, 0, Unbounded), GS, NCls(NotDotNL, 10, 50), GE >>,
       \* /last date[:\s]*([^.\n]{10,50})/i
       << LitI("last date"), Cls(ColonSp, 0, Unbounded), GS, NCls(NotDotNL, 10, 50), GE >>,
       \* /\b(?:January|...|December)\s+\d{1,2}(?:st|nd|rd|th)?,?\s*202[5-6]\b/
       << WB, MonthAlt, Cls(Space, 1, Unbounded), Cls(Digit, 1, 2),
          Opt(<< Alt(<< <<Lit("st")>>, <<Lit("nd")>>, <<Lit("rd")>>, <<Lit("th")>> >>) >>),
          Opt(<<Lit(",")>>), Cls(Space, 0, Unbounded), Lit("202"), Cls({"5", "6"}, 1, 1), WB >>,
       \* /\d{1,2}[\/\-]\d{1,2}[\/\-]202[5-6]/
       << Cls(Digit, 1, 2), Cls({"/", "-"}, 1, 1), Cls(Digit, 1, 2), Cls({"/", "-"}, 1, 1),
          Lit("202"), Cls({"5", "6"}, 1, 1) >>,
       \* /202[5-6]\s*(?:deadline|due)/i
       << Lit("202"), Cls({"5", "6"}, 1, 1), Cls(Space, 0, Unbounded),
          Alt(<< <<LitI("deadline")>>, <<LitI("due")>> >>) >> >>

RECURSIVE RichDeadlineFrom(_, _)
RichDeadlineFrom(text, k) ==
    IF k > Len(RichDeadlinePatterns)
    THEN "Check official website for application deadlines"
    ELSE LET m == Search(RichDeadlinePatterns[k], text)
         IN  IF Found(m)
             THEN trim(IF HasGroup(m) /\ Len(Group(text, m)) > 0 THEN Group(text, m)
                       ELSE Whole(text, m))
             ELSE RichDeadlineFrom(text, k + 1)

RichExtractDeadline(text) == RichDeadlineFrom(text, 1)

\* Array.prototype.join
RECURSIVE join(_, _)
join(parts, sep) ==
    IF Len(parts) = 0 THEN ""
    ELSE IF Len(parts) = 1 THEN parts[1]
    ELSE parts[1] \o sep \o join(Tail(parts), sep)

RichRelevant(sentence) ==
    /\ Len(sentence) > 40
    /\ Len(sentence) < 200
    /\ ~includes(toLowerCase(sentence), "scholarship name")
    /\ ~includes(toLowerCase(sentence), "eligibility criteria")
    /\ ~includes(toLowerCase(sentence), "application deadline")

RichExtractDescription(text) ==
    LET \* text.split(/[.!?]+/)
        sentences == Split(<<Cls({".", "!", "?"}, 1, Unbounded)>>, text)
        relevantSentences == SliceTo(SelectSeq(sentences, RichRelevant), 2)
    IN  IF Len(relevantSentences) > 0
        THEN trim(join(relevantSentences, ". ")) \o "."
        ELSE "Financial assistance program for eligible students to pursue higher education."

(***************************************************************************)
(* new URL(link) of the runtime, for the links the extractors build: an    *)
(* http or https scheme, then the authority up to the first of / ? # \,    *)
(* its host after any userinfo and before any port.  The parse fails on an *)
(* empty host, on a forbidden host code point and on a port that is not a  *)
(* number below 65536.  (Hosts that are IPv6 literals are outside the      *)
(* model: a bracket counts as a forbidden code point.)                     *)
(***************************************************************************)
ForbiddenHostCh ==
    {" ", "\t", "\n", "\r", "#", "/", ":", "<", ">", "?", "@", "[", "\\", "]", "^", "|", "%"}

AuthorityEnd == {"/", "?", "#", "\\"}

RECURSIVE ToNumber(_)
\* the number a string of decimal digits denotes
ToNumber(ds) ==
    IF Len(ds) = 0 THEN 0
    ELSE 10 * ToNumber(Slice(ds, 0, Len(ds) - 1))
         + (CHOOSE d \in 0..9 : SubSeq("0123456789", d + 1, d + 1) = SubSeq(ds, Len(ds), Len(ds)))

\* the part of the characters cs after the last occurrence of c (all of
\* them when c does not occur)
AfterLast(cs, c) ==
    LET at == {i \in 1..Len(cs) : cs[i] = c}
    IN  IF at = {} THEN cs
        ELSE SubSeq(cs, (CHOOSE i \in at : \A j \in at : i >= j) + 1, Len(cs))

\* the offset of the first occurrence of c in cs, or Len(cs) without one
FirstOf(cs, c) ==
    LET at == {i \in 1..Len(cs) : cs[i] = c}
    IN  IF at = {} THEN Len(cs) ELSE (CHOOSE i \in at : \A j \in at : i <= j) - 1

\* the host is not empty and has no forbidden code point
ValidHost(host) == Len(host) > 0 /\ \A i \in 1..Len(host) : host[i] \notin ForbiddenHostCh

\* the port is empty, or a decimal number below 65536
ValidPort(port) ==
    /\ \A i \in 1..Len(port) : port[i] \in Digit
    /\ ToNumber(FromChars(port)) <= 65535

\* the host and the port of the characters host[:port]
ValidHostPort(hostport, colon) ==
    /\ ValidHost(SubSeq(hostport, 1, colon))
    /\ ValidPort(SubSeq(hostport, colon + 2, Len(hostport)))

\* the authority: what follows the userinfo is the host and the port
ValidAuthority(authority) ==
    ValidHostPort(AfterLast(authority, "@"), FirstOf(AfterLast(authority, "@"), ":"))

\* t from offset start on, up to the first of / ? # \
AuthorityFrom(t, start) ==
    SubSeq(t, start + 1, start + Run(NCls(AuthorityEnd, 0, Unbounded), t, start, Unbounded))

\* after the scheme of a special URL every leading slash is skipped
AfterScheme(t, schemeLen) ==
    ValidAuthority(AuthorityFrom(t, schemeLen
                        + Run(Cls({"/", "\\"}, 0, Unbounded), t, schemeLen, Unbounded)))

IsValidURL(link) ==
    IF startsWith(link, "https:") THEN AfterScheme(Chars(link), 6)
    ELSE IF startsWith(link, "http:") THEN AfterScheme(Chars(link), 5)
    ELSE FALSE

\* [^\s)]
LinkCh == Space \cup {")"}

RichLinkPatterns ==
    << \* /(https?:\/\/[^\s)]+)/
       << GS, Lit("http"), Opt(<<Lit("s")>>), Lit("://"), NCls(LinkCh, 1, Unbounded), GE >>,
       \* /(?:website|portal|apply)[:\s]*(www\.[^\s]+)/i
       << Alt(<< <<LitI("website")>>, <<LitI("portal")>>, <<LitI("apply")>> >>),
          Cls(ColonSp, 0, Unbounded), GS, LitI("www."), NCls(Space, 1, Unbounded), GE >>,
       \* /(?:visit|check)[:\s]*(www\.[^\s]+)/i
       << Alt(<< <<LitI("visit")>>, <<LitI("check")>> >>),
          Cls(ColonSp, 0, Unbounded), GS, LitI("www."), NCls(Space, 1, Unbounded), GE >> >>

\* the value standing for JavaScript's null (no extracted link is this
\* string: every one of them starts with http)
Null == "null"

\* link = match[1] || match[0]; 'https://' is put before a link that does
\* not start with 'http'
RichLinkCandidate(text, m) ==
    LET link == IF HasGroup(m) /\ Len(Group(text, m)) > 0 THEN Group(text, m)
                ELSE Whole(text, m)
    IN  IF startsWith(link, "http") THEN link ELSE "https://" \o link

RECURSIVE RichLinkFrom(_, _)
RECURSIVE RichLinkTake(_, _, _)
\* the patterns are tried in order, from pattern k on
RichLinkFrom(text, k) ==
    IF k > Len(RichLinkPatterns) THEN Null
    ELSE LET m == Search(RichLinkPatterns[k], text)
         IN  IF Found(m) THEN RichLinkTake(text, k, RichLinkCandidate(text, m))
             ELSE RichLinkFrom(text, k + 1)

\* try { new URL(link); return link; } catch (e) { continue; }
RichLinkTake(text, k, link) ==
    IF IsValidURL(link) THEN link ELSE RichLinkFrom(text, k + 1)

RichExtractLink(text) == RichLinkFrom(text, 1)

PortalURL == "https://scholarships.gov.in"

\* value || other, for a value that is null or a string
OrElse(value, other) == IF value = Null \/ value = "" THEN other ELSE value

extractScholarshipInfo(text) ==
    [name |-> extractScholarshipName(text),
     amount |-> RichExtractAmount(text),
     eligibility |-> RichExtractEligibility(text),
     deadline |-> RichExtractDeadline(text),
     description |-> RichExtractDescription(text),
     \* extractLink(text) || 'https://scholarships.gov.in'
     link |-> OrElse(RichExtractLink(text), PortalURL)]

(***************************************************************************)
(* Field extractors, simpler variant (src/unnamed/part_000)                *)
(***************************************************************************)
SimpleNamePatterns ==
    << \* /([A-Z][A-Za-z\s&-]+(?:Scholarship|Grant|Fellowship|Award|Scheme|Yojana))/
       << GS, Cls(Upper, 1, 1), Cls(NameCh, 1, Unbounded),
          Alt(<< <<Lit("Scholarship")>>, <<Lit("Grant")>>, <<Lit("Fellowship")>>,
                 <<Lit("Award")>>, <<Lit("Scheme")>>, <<Lit("Yojana")>> >>), GE >>,
       \* /^([A-Z][^.\n]+(?:Scholarship|Grant|Fellowship|Award))/m
       << BOL, GS, Cls(Upper, 1, 1), NCls(NotDotNL, 1, Unbounded),
          Alt(<< <<Lit("Scholarship")>>, <<Lit("Grant")>>, <<Lit("Fellowship")>>,
                 <<Lit("Award")>> >>), GE >> >>

\* return 'Educational Grant'
SimpleDefaultName == "Educational Grant"

RECURSIVE SimpleNameFrom(_, _)
SimpleNameFrom(text, k) ==
    IF k > Len(SimpleNamePatterns) THEN SimpleDefaultName
    ELSE LET m == Search(SimpleNamePatterns[k], text)
         IN  IF Found(m) THEN trim(Group(text, m)) ELSE SimpleNameFrom(text, k + 1)

extractName(text) == SimpleNameFrom(text, 1)

SimpleAmountPatterns ==
    << \* /₹[\d,.\s]+(?:\s*(?:lakh|crore|per year|annually))?/i
       << Lit(Rupee), Cls(NumCh, 1, Unbounded),
          Opt(<< Cls(Space, 0, Unbounded),
                 Alt(<< <<LitI("lakh")>>, <<LitI("crore")>>, <<LitI("per year")>>,
                        <<LitI("annually")>> >>) >>) >>,
       \* /Rs\.?\s*[\d,.\s]+/i
       << LitI("Rs"), Opt(<<Lit(".")>>), Cls(Space, 0, Unbounded), Cls(NumCh, 1, Unbounded) >>,
       \* /up to\s*₹?[\d,.\s]+/i
       << LitI("up to"), Cls(Space, 0, Unbounded), Opt(<<Lit(Rupee)>>),
          Cls(NumCh, 1, Unbounded) >> >>

RECURSIVE SimpleAmountFrom(_, _)
SimpleAmountFrom(text, k) ==
    IF k > Len(SimpleAmountPatterns) THEN "Amount varies"
    ELSE LET m == Search(SimpleAmountPatterns[k], text)
         IN  IF Found(m) THEN trim(Whole(text, m)) ELSE SimpleAmountFrom(text, k + 1)

SimpleExtractAmount(text) == SimpleAmountFrom(text, 1)

SimpleEligibilityPatterns ==
    << \* /eligibility[:\s]*([^.\n]{20,100})/i
       << LitI("eligibility"), Cls(ColonSp, 0, Unbounded), GS, NCls(NotDotNL, 20, 100), GE >>,
       \* /eligible[:\s]*([^.\n]{20,100})/i
       << LitI("eligible"), Cls(ColonSp, 0, Unbounded), GS, NCls(NotDotNL, 20, 100), GE >>,
       \* /for\s+([^.\n]{20,100}students)/i
       << LitI("for"), Cls(Space, 1, Unbounded), GS, NCls(NotDotNL, 20, 100),
          LitI("students"), GE >> >>

RECURSIVE SimpleEligibilityFrom(_, _)
SimpleEligibilityFrom(text, k) ==
    IF k > Len(SimpleEligibilityPatterns) THEN "Check official website"
    ELSE LET m == Search(SimpleEligibilityPatterns[k], text)
         IN  IF Found(m) THEN trim(Group(text, m)) ELSE SimpleEligibilityFrom(text, k + 1)

SimpleExtractEligibility(text) == SimpleEligibilityFrom(text, 1)

SimpleDeadlinePatterns ==
    << \* /deadline[:\s]*([^.\n]{10,50})/i
       << LitI("deadline"), Cls(ColonSp, 0, Unbounded), GS, NCls(NotDotNL, 10, 50), GE >>,
       \* /apply by[:\s]*([^.\n]{10,50})/i
       << LitI("apply by"), Cls(ColonSp, 0, Unbounded), GS, NCls(NotDotNL, 10, 50), GE >>,
       \* /(?:January|...|December)\s+\d{4}/i
       << MonthAltI, Cls(Space, 1, Unbounded), Cls(Digit, 4, 4) >> >>

RECURSIVE SimpleDeadlineFrom(_, _)
SimpleDeadlineFrom(text, k) ==
    IF k > Len(SimpleDeadlinePatterns) THEN "Check website"
    ELSE LET m == Search(SimpleDeadlinePatterns[k], text)
         IN  IF Found(m)
             THEN (IF HasGroup(m) /\ Len(Group(text, m)) > 0 THEN Group(text, m)
                   ELSE Whole(text, m))
             ELSE SimpleDeadlineFrom(text, k + 1)

SimpleExtractDeadline(text) == SimpleDeadlineFrom(text, 1)

SimpleGood(s) == Len(s) > 30 /\ Len(s) < 150

SimpleExtractDescription(text) ==
    LET \* text.split(/[.!?]/)
        sentences == Split(<<Cls({".", "!", "?"}, 1, 1)>>, text)
        good == SliceTo(SelectSeq(sentences, SimpleGood), 1)
    IN  IF Len(good) > 0 THEN trim(good[1]) \o "."
        ELSE "Scholarship opportunity available."

SimpleExtractLink(text) ==
    LET \* /(https?:\/\/[^\s)]+)/
        m == Search(<< GS, Lit("http"), Opt(<<Lit("s")>>), Lit("://"),
                       NCls(LinkCh, 1, Unbounded), GE >>, text)
    IN  IF Found(m) THEN Group(text, m) ELSE PortalURL

SimpleCandidate(section) ==
    [name |-> extractName(section),
     amount |-> SimpleExtractAmount(section),
     eligibility |-> SimpleExtractEligibility(section),
     deadline |-> SimpleExtractDeadline(section),
     description |-> SimpleExtractDescription(section),
     link |-> SimpleExtractLink(section)]

(***************************************************************************)
(* Segmenter, validator and fallback catalog of each variant               *)
(***************************************************************************)
\* /(?=\d+\.|\n##|\*\*[A-Z].*[Ss]cholarship|\n[A-Z].*[Ss]cholarship|\n- [A-Z])/
RichSplitPattern ==
    << LA(<< Alt(<< <<Cls(Digit, 1, Unbounded), Lit(".")>>,
                    <<Lit("\n##")>>,
                    <<Lit("**"), Cls(Upper, 1, 1), NCls(LineEnd, 0, Unbounded),
                      Cls({"S", "s"}, 1, 1), Lit("cholarship")>>,
                    <<Lit("\n"), Cls(Upper, 1, 1), NCls(LineEnd, 0, Unbounded),
                      Cls({"S", "s"}, 1, 1), Lit("cholarship")>>,
                    <<Lit("\n- "), Cls(Upper, 1, 1)>> >>) >>) >>

\* /(?:\d+\.|\n-|\*\*|\n#{1,3})/
SimpleSplitPattern ==
    << Alt(<< <<Cls(Digit, 1, Unbounded), Lit(".")>>,
              <<Lit("\n-")>>,
              <<Lit("**")>>,
              <<Lit("\n"), Cls({"#"}, 1, 3)>> >>) >>

RichMinSectionLen == 100
SimpleMinSectionLen == 50
RichCollectCap == 10
ReturnCap == 8

\* the richer validator without its test for a type word: a faulty variant
\* that the properties on returned names must tell from RichValid
RichValidAnyName(scholarship) ==
    LET name == scholarship.name
        lower == toLowerCase(name)
    IN  /\ Len(name) > 8
        /\ Len(name) < 200
        /\ ~includes(lower, "here are")
        /\ ~includes(lower, "following")

RichValid(scholarship) ==
    LET name == scholarship.name
        lower == toLowerCase(name)
    IN  /\ Len(name) > 0
        /\ Len(name) > 8
        /\ Len(name) < 200
        /\ ~includes(lower, "here are")
        /\ ~includes(lower, "following")
        /\ \/ includes(lower, "scholarship")
           \/ includes(lower, "grant")
           \/ includes(lower, "fellowship")
           \/ includes(lower, "award")
           \/ includes(lower, "scheme")

SimpleValid(scholarship) ==
    LET name == scholarship.name
        lower == toLowerCase(name)
    IN  /\ Len(name) > 0
        /\ Len(name) > 10
        /\ \/ includes(lower, "scholarship")
           \/ includes(lower, "grant")
           \/ includes(lower, "award")

RichFallback ==
    << [name |-> "National Scholarship Portal (NSP)",
        amount |-> Rupee \o "12,000 - " \o Rupee \o "2,00,000 per year",
        eligibility |-> "Various categories including merit-based, need-based, SC/ST, OBC, and minority students",
        deadline |-> "Multiple deadlines (Usually October to December 2025)",
        description |-> "Government of India's centralized platform offering various scholarship schemes for students across different categories and educational levels.",
        link |-> "https://scholarships.gov.in"],
       [name |-> "Post Matric Scholarship Scheme for SC Students",
        amount |-> Rupee \o "230 - " \o Rupee \o "1,200 per month + academic fees",
        eligibility |-> "SC students pursuing post-matriculation studies with family income below " \o Rupee \o "2.5 lakh",
        deadline |-> "November 30, 2025",
        description |-> "Central government scheme providing financial assistance to SC students for higher education.",
        link |-> "https://scholarships.gov.in"],
       [name |-> "Merit cum Means Scholarship for Professional Courses",
        amount |-> Rupee \o "20,000 per year",
        eligibility |-> "Students with family income below " \o Rupee \o "2.5 lakh and good academic record (80% or above)",
        deadline |-> "December 31, 2025",
        description |-> "UGC scheme for economically weaker students pursuing professional courses.",
        link |-> "https://scholarships.gov.in"],
       [name |-> "Inspire Scholarship for Higher Education",
        amount |-> Rupee \o "80,000 per year",
        eligibility |-> "Top 1% students in Class XII board examination pursuing B.Sc./B.S./B.Tech./Integrated M.Sc.",
        deadline |-> "July 31, 2025",
        description |-> "DST scheme to attract talented students to pursue careers in science and technology.",
        link |-> "https://online-inspire.gov.in"] >>

SimpleFallback ==
    << [name |-> "National Scholarship Portal",
        amount |-> Rupee \o "12,000 - " \o Rupee \o "2,00,000 per year",
        eligibility |-> "Various categories - merit and need based",
        deadline |-> "October to December 2025",
        description |-> "Government scholarship platform with multiple schemes for different student categories.",
        link |-> "https://scholarships.gov.in"],
       [name |-> "Post Matric Scholarship for SC/ST",
        amount |-> Rupee \o "230 - " \o Rupee \o "1,200 per month",
        eligibility |-> "SC/ST students in higher education",
        deadline |-> "November 2025",
        description |-> "Central government scholarship for SC/ST students pursuing post-matric courses.",
        link |-> "https://scholarships.gov.in"],
       [name |-> "Merit cum Means Scholarship",
        amount |-> Rupee \o "20,000 per year",
        eligibility |-> "Family income below " \o Rupee \o "2.5 lakh, 80%+ marks",
        deadline |-> "December 2025",
        description |-> "For meritorious students from economically weaker sections.",
        link |-> "https://scholarships.gov.in"] >>

\* the variant's pieces, by name
SplitPattern(v) == IF v = "rich" THEN RichSplitPattern ELSE SimpleSplitPattern
MinSectionLen(v) == IF v = "rich" THEN RichMinSectionLen ELSE SimpleMinSectionLen
\* the section as the loop body sees it (the richer variant trims it)
Section(v, piece) == IF v = "rich" THEN trim(piece) ELSE piece
Candidate(v, section) ==
    IF v = "rich" THEN extractScholarshipInfo(section) ELSE SimpleCandidate(section)
Valid(v, scholarship) == IF v = "rich" THEN RichValid(scholarship) ELSE SimpleValid(scholarship)
Fallback(v) == IF v = "rich" THEN RichFallback ELSE SimpleFallback

(***************************************************************************)
(* The answers the completion API may give.  message.content is any JSON   *)
(* value: a string, or a value of another type.                            *)
(***************************************************************************)
Str(text) == [kind |-> "string", text |-> text]
NonStrings == {[kind |-> "number"], [kind |-> "object"]}
IsString(content) == content.kind = "string"
\* !content: no content in the answer, or the empty string (the values of
\* NonStrings are truthy ones)
FalsyContent(content) == content.kind = "absent" \/ (IsString(content) /\ content.text = "")

\* the decimal digits of k
RECURSIVE DigitSeq(_)
DigitSeq(k) ==
    IF k < 10 THEN SubSeq("0123456789", k + 1, k + 1)
    ELSE DigitSeq(k \div 10) \o DigitSeq(k % 10)

\* entry k of a numbered list of well-formed scholarship descriptions
NumberedBlock(k) ==
    DigitSeq(k) \o ". National Merit Scholarship\nAmount: " \o Rupee \o DigitSeq(k)
    \o "0,000 per year\nEligibility: for economically weaker students\nDeadline: December 31, 2025\nhttps://example.gov.in/apply\n"

RECURSIVE NumberedList(_)
NumberedList(n) == IF n = 0 THEN "" ELSE NumberedList(n - 1) \o NumberedBlock(n)

\* other passages an answer may hold
Passages ==
    << "",
       \* a title whose only type word is Yojana
       "## Pradhan Mantri Vidya Yojana\nAmount: Rs. 10,000 annually\nEligible: students of families below the poverty line\nApply by: 15/08/2025 on the portal\nwebsite: www.pmvy.example.in\n",
       \* conversational text of 100 characters and more
       "Thank you for your question. Here is some general advice about funding your education. Please ask your college office for more help.\n",
       \* the conversational sentence of fewer than 100 characters
       "Thank you for your question. Here is some general advice about funding your education.",
       \* a malformed URL before a well-formed bare domain
       "**Tata Trust Fellowship Grant** offers up to " \o Rupee \o "2 lakh for the candidates. Requirements: a first class degree in any science. Due: by 30th June 2026 at noon. See http://<tata> or visit: www.tatatrusts.example.org today\n",
       \* a malformed URL and no other
       "- Central Sector Scheme of support\nCriteria: income below 4,50,000 per year and 80 percent marks. 2025 deadline applies! Write to http://:80/x for the form\n",
       \* a sentence that introduces a list
       "Here are the following scholarships and awards that match your profile at the college, listed with amount and deadline details:\n" >>

MaxBlocks == 12
MaxMixed == 1

\* what one request's answer is drawn from when requests are served one at
\* a time: numbered lists, and short lists between two passages
SingleContents ==
    {Str(NumberedList(n)) : n \in 1..MaxBlocks}
    \cup {Str(Passages[p] \o NumberedList(n) \o Passages[q]) :
            p \in 1..Len(Passages), q \in 1..Len(Passages), n \in 0..MaxMixed}
    \cup NonStrings

\* what an answer is drawn from when requests overlap
ConcurrentContents ==
    {Str(NumberedList(1)), Str(Passages[4]), [kind |-> "number"]}

(***************************************************************************)
(* State                                                                   *)
(***************************************************************************)
Requests == {1, 2}

VARIABLES
    variant,       \* which server file runs: "rich" or "simple"
    world,         \* "single": one request; "concurrent": overlapping requests
    apiKey,        \* process.env.PERPLEXITY_API_KEY is set
    hpc,           \* per request: the handler's position
    body,          \* per request: req.body, by the kind of each field
    upstream,      \* per request: what the completion API answered
    error,         \* per request: the error the handler's catch received
    trace,         \* per request: the handler's stages passed, in order
    responses,     \* per request: the responses sent
    running,       \* the request whose synchronous code holds the event loop, or 0
    overlapped,    \* history: an outbound call was made while another was pending
    ppc,           \* the parser's position
    responseText,  \* the parser's argument
    sections,      \* the parser's local: the pieces of the split
    idx,           \* the parser's local: the loop index (pieces consumed)
    scholarships,  \* the parser's local: the accepted collection
    caught,        \* the parser's catch block ran
    result,        \* the parser's return value
    visited        \* history: what each iteration of the parser's loop did

hvars == <<hpc, body, upstream, error, trace, responses, running, overlapped>>
pvars == <<ppc, responseText, sections, idx, scholarships, caught, result, visited>>
vars == <<variant, world, apiKey, hvars, pvars>>

NoUpstream == [kind |-> "none"]
NoError == [kind |-> "none"]
NoContent == [kind |-> "absent"]

\* req.body by the kind of its fields: a required field is missing (or the
\* empty string), blank (whitespace only) or text; the optional fields
\* (location, gpa, category, budget) are text, or one of them is a value of
\* another type (a number for gpa)
AllBodies ==
    {[collegeName |-> "text", course |-> "text", optional |-> "text"],
     [collegeName |-> "missing", course |-> "text", optional |-> "text"],
     [collegeName |-> "text", course |-> "missing", optional |-> "text"],
     [collegeName |-> "blank", course |-> "text", optional |-> "text"],
     [collegeName |-> "text", course |-> "blank", optional |-> "text"],
     [collegeName |-> "text", course |-> "text", optional |-> "nonstring"]}
\* a test of the required fields that lets every body pass: a faulty
\* variant that the order of the handler's stages must tell from Falsy
FalsyNever(kind) == FALSE

\* !field
Falsy(kind) == kind = "missing"

Statuses == {200, 204, 400, 401, 429, 500}
ErrorCodes == {"ECONNABORTED", "ETIMEDOUT", "ENOTFOUND"}

Contents == IF world = "single" THEN SingleContents ELSE ConcurrentContents

\* the bodies a request is drawn from: where the answers vary widely, a
\* complete profile and one without the college name
Bodies ==
    IF world = "single"
    THEN {b \in AllBodies : b.course = "text" /\ b.collegeName # "blank"
                              /\ b.optional = "text"}
    ELSE AllBodies

\* the outcomes of the outbound call: an HTTP response, or a transport error
Outcomes ==
    {[kind |-> "response", status |-> 200, content |-> c] : c \in Contents \cup {NoContent}}
    \cup {[kind |-> "response", status |-> st, content |-> NoContent] : st \in Statuses \ {200}}
    \cup {[kind |-> "error", code |-> c] : c \in ErrorCodes}

InitCommon ==
    /\ variant \in {"rich", "simple"}
    /\ apiKey \in BOOLEAN
    /\ body = [r \in Requests |-> [collegeName |-> "missing", course |-> "missing",
                                   optional |-> "missing"]]
    /\ upstream = [r \in Requests |-> NoUpstream]
    /\ error = [r \in Requests |-> NoError]
    /\ trace = [r \in Requests |-> <<>>]
    /\ responses = [r \in Requests |-> <<>>]
    /\ running = 0
    /\ overlapped = FALSE
    /\ ppc = "idle"
    /\ responseText = NoContent
    /\ sections = <<>>
    /\ idx = 0
    /\ scholarships = <<>>
    /\ caught = FALSE
    /\ result = <<>>
    /\ visited = <<>>

\* one request, any answer
Init ==
    /\ InitCommon
    /\ world = "single"
    /\ hpc = [r \in Requests |-> IF r = 1 THEN "new" ELSE "absent"]

\* overlapping requests
InitServer ==
    /\ InitCommon
    /\ world = "concurrent"
    /\ hpc = [r \in Requests |-> "new"]

(***************************************************************************)
(* The parsing orchestrator: parseScholarshipResponse / parseScholarships  *)
(***************************************************************************)
\* a collection kept from one call to the next (as a module-level array
\* would be): a faulty variant that purity must tell from NewCollection
KeepCollection(old) == old

\* const scholarships = []
NewCollection(old) == <<>>

\* the call: the argument is bound and the function's locals are created
ParseEnter(text) ==
    /\ ppc = "idle"
    /\ ppc' = "split"
    /\ responseText' = text
    /\ scholarships' = NewCollection(scholarships)
    /\ sections' = <<>>
    /\ idx' = 0
    /\ caught' = FALSE
    /\ result' = <<>>
    /\ visited' = <<>>

\* responseText.split(...): a value that is no string has no split method,
\* and the TypeError goes to the catch block
ParseSplit ==
    /\ ppc = "split"
    /\ IF IsString(responseText)
       THEN /\ sections' = Split(SplitPattern(variant), responseText.text)
            /\ ppc' = "loop"
       ELSE /\ sections' = sections
            /\ ppc' = "catch"
    /\ UNCHANGED <<responseText, idx, scholarships, caught, result, visited>>

\* the loop condition: i < sections.length && scholarships.length < 10 in the
\* richer variant, for (const section of sections) in the simpler one
LoopContinues ==
    /\ idx < Len(sections)
    /\ variant = "rich" => Len(scholarships) < RichCollectCap

\* unshift in place of push: a faulty variant that the order of the output
\* must tell from Push
PushFront(collection, scholarship) == <<scholarship>> \o collection

\* scholarships.push(scholarship)
Push(collection, scholarship) == Append(collection, scholarship)

\* if (the name passes the validator) scholarships.push(scholarship)
Accept(collection, scholarship) ==
    IF Valid(variant, scholarship) THEN Push(collection, scholarship) ELSE collection

\* the loop body: a short section is skipped, the candidate built from
\* another one is validated
Visit(collection, section, scholarship) ==
    IF Len(section) < MinSectionLen(variant) THEN collection
    ELSE Accept(collection, scholarship)

\* the history's entry for one iteration
Seen(section, scholarship) ==
    IF Len(section) < MinSectionLen(variant) THEN [kind |-> "skipped"]
    ELSE [kind |-> "built", candidate |-> scholarship, valid |-> Valid(variant, scholarship)]

\* one iteration of the loop
ParseSection ==
    /\ ppc = "loop"
    /\ LoopContinues
    /\ idx' = idx + 1
    /\ LET section == Section(variant, sections[idx + 1])
           scholarship == Candidate(variant, section)
       IN  /\ scholarships' = Visit(scholarships, section, scholarship)
           /\ visited' = Append(visited, Seen(section, scholarship))
    /\ UNCHANGED <<ppc, responseText, sections, caught, result>>

\* the loop ends
ParseLoopExit ==
    /\ ppc = "loop"
    /\ ~LoopContinues
    /\ ppc' = "fallback"
    /\ UNCHANGED <<responseText, sections, idx, scholarships, caught, result, visited>>

\* the catalog pushed whatever the collection holds: a faulty variant that
\* the substitution rule must tell from WithFallback
WithFallbackAlways(collection) == collection \o Fallback(variant)

\* if (scholarships.length === 0) scholarships.push(...the catalog)
WithFallback(collection) ==
    IF Len(collection) = 0 THEN collection \o Fallback(variant) ELSE collection

ParseFallback ==
    /\ ppc = "fallback"
    /\ scholarships' = WithFallback(scholarships)
    /\ ppc' = "return"
    /\ UNCHANGED <<responseText, sections, idx, caught, result, visited>>

\* catch (error) { console.error(...) }
ParseCatch ==
    /\ ppc = "catch"
    /\ caught' = TRUE
    /\ ppc' = "return"
    /\ UNCHANGED <<responseText, sections, idx, scholarships, result, visited>>

\* scholarships.slice(0, 8)
ReturnSlice(collection) == SliceTo(collection, ReturnCap)

ParseReturn ==
    /\ ppc = "return"
    /\ result' = ReturnSlice(scholarships)
    /\ ppc' = "done"
    /\ UNCHANGED <<responseText, sections, idx, scholarships, caught, visited>>

(***************************************************************************)
(* The handler app.post('/api/search-scholarships').  Its synchronous      *)
(* stretches (from the request to the await, from the settled call to the  *)
(* response) run to completion: while `running` names a request, no other  *)
(* request takes a step.                                                   *)
(***************************************************************************)
Stage(r, name) == trace' = [trace EXCEPT ![r] = Append(@, name)]

ErrorResponse(status, message) == [status |-> status, success |-> FALSE, error |-> message]

\* the handler left without a response sent: a faulty variant that the
\* count of responses must tell from Send
LeaveUnanswered(r, resp) ==
    /\ responses' = responses
    /\ hpc' = [hpc EXCEPT ![r] = "done"]
    /\ running' = 0

\* res.status(...).json(...): the response is sent and the handler is left
Send(r, resp) ==
    /\ responses' = [responses EXCEPT ![r] = Append(@, resp)]
    /\ hpc' = [hpc EXCEPT ![r] = "done"]
    /\ running' = 0

\* throw: control goes to the handler's catch
Throw(r, err) ==
    /\ error' = [error EXCEPT ![r] = err]
    /\ hpc' = [hpc EXCEPT ![r] = "catch"]

PlainError == [code |-> "none", status |-> 0]

\* a request arrives
Arrive(r) ==
    /\ hpc[r] = "new"
    /\ running = 0
    /\ \E b \in Bodies : body' = [body EXCEPT ![r] = b]
    /\ hpc' = [hpc EXCEPT ![r] = "validate"]
    /\ running' = r
    /\ Stage(r, "received")
    /\ UNCHANGED <<variant, world, apiKey, upstream, error, responses, overlapped, pvars>>

\* the required fields
ValidateFields(r) ==
    /\ hpc[r] = "validate"
    /\ running = r
    /\ IF variant = "rich"
       THEN IF body[r].collegeName \in {"missing", "blank"}
            THEN /\ Send(r, ErrorResponse(400, "College name is required"))
                 /\ UNCHANGED <<error, trace>>
            ELSE IF body[r].course \in {"missing", "blank"}
            THEN /\ Send(r, ErrorResponse(400, "Course is required"))
                 /\ UNCHANGED <<error, trace>>
            ELSE /\ hpc' = [hpc EXCEPT ![r] = "checkKey"]
                 /\ Stage(r, "fields")
                 /\ UNCHANGED <<error, responses, running>>
       ELSE IF Falsy(body[r].collegeName) \/ Falsy(body[r].course)
            THEN /\ Send(r, ErrorResponse(400, "College name and course are required"))
                 /\ UNCHANGED <<error, trace>>
            ELSE /\ hpc' = [hpc EXCEPT ![r] = "checkKey"]
                 /\ Stage(r, "fields")
                 /\ UNCHANGED <<error, responses, running>>
    /\ UNCHANGED <<variant, world, apiKey, body, upstream, overlapped, pvars>>

\* the API credential
CheckKey(r) ==
    /\ hpc[r] = "checkKey"
    /\ running = r
    /\ IF ~apiKey
       THEN /\ Send(r, ErrorResponse(500,
                        IF variant = "rich"
                        THEN "Server configuration error - API key not configured"
                        ELSE "Server configuration error"))
            /\ UNCHANGED trace
       ELSE /\ hpc' = [hpc EXCEPT ![r] = "call"]
            /\ Stage(r, "key")
            /\ UNCHANGED <<responses, running>>
    /\ UNCHANGED <<variant, world, apiKey, body, upstream, error, overlapped, pvars>>

\* request q awaits its outbound call
Pending(q) == hpc[q] \in {"await", "settled"}

\* the answer read from a place every request writes (as a module-level
\* variable would be): a faulty variant that independence of requests must
\* tell from Argument
ArgumentShared(r) ==
    LET others == {q \in Requests : q # r /\ upstream[q].kind = "response"}
    IN  IF others = {} THEN upstream[r].content
        ELSE upstream[CHOOSE q \in others : TRUE].content

\* message.content of the answer to request r, the parser's argument
Argument(r) == upstream[r].content

\* the query is built and axios.post is called; the handler awaits.  In the
\* richer variant the optional fields are trimmed with ?.trim(), which
\* throws on a value that is no string
CallUpstream(r) ==
    /\ hpc[r] = "call"
    /\ running = r
    /\ IF variant = "rich" /\ body[r].optional = "nonstring"
       THEN /\ Throw(r, PlainError)
            /\ UNCHANGED <<trace, running, overlapped>>
       ELSE /\ hpc' = [hpc EXCEPT ![r] = "await"]
            /\ Stage(r, "call")
            /\ running' = 0
            /\ overlapped' = (overlapped \/ \E q \in Requests : Pending(q))
            /\ UNCHANGED error
    /\ UNCHANGED <<variant, world, apiKey, body, upstream, responses, pvars>>

\* the outbound call settles (the network's step)
Settle(r) ==
    /\ hpc[r] = "await"
    /\ \E o \in Outcomes : upstream' = [upstream EXCEPT ![r] = o]
    /\ hpc' = [hpc EXCEPT ![r] = "settled"]
    /\ UNCHANGED <<variant, world, apiKey, body, error, trace, responses, running, overlapped, pvars>>

\* validateStatus: status < 500 in the richer variant, axios's default
\* (200 <= status < 300) in the simpler
ValidateStatus(status) ==
    IF variant = "rich" THEN status < 500 ELSE status >= 200 /\ status < 300

\* the await resumes: the promise is fulfilled with the response, or
\* rejected with an error that carries a code (transport) or the response
Resume(r) ==
    /\ hpc[r] = "settled"
    /\ running = 0
    /\ running' = r
    /\ IF upstream[r].kind = "response" /\ ValidateStatus(upstream[r].status)
       THEN /\ hpc' = [hpc EXCEPT ![r] = IF variant = "rich" THEN "checkStatus"
                                         ELSE "checkContent"]
            /\ Stage(r, "resolved")
            /\ UNCHANGED error
       ELSE /\ Throw(r, IF upstream[r].kind = "error"
                        THEN [code |-> upstream[r].code, status |-> 0]
                        ELSE [code |-> "ERR_BAD_RESPONSE", status |-> upstream[r].status])
            /\ UNCHANGED trace
    /\ UNCHANGED <<variant, world, apiKey, body, upstream, responses, overlapped, pvars>>

\* if (perplexityResponse.status !== 200) throw new Error(...)
CheckStatus(r) ==
    /\ hpc[r] = "checkStatus"
    /\ running = r
    /\ IF upstream[r].status # 200
       THEN /\ Throw(r, PlainError)
            /\ UNCHANGED trace
       ELSE /\ hpc' = [hpc EXCEPT ![r] = "checkContent"]
            /\ Stage(r, "status")
            /\ UNCHANGED error
    /\ UNCHANGED <<variant, world, apiKey, body, upstream, responses, running, overlapped, pvars>>

\* if (!data?.choices?.[0]?.message?.content) throw new Error(...)
CheckContent(r) ==
    /\ hpc[r] = "checkContent"
    /\ running = r
    /\ IF FalsyContent(upstream[r].content)
       THEN /\ Throw(r, PlainError)
            /\ UNCHANGED trace
       ELSE /\ hpc' = [hpc EXCEPT ![r] = "parse"]
            /\ Stage(r, "content")
            /\ UNCHANGED error
    /\ UNCHANGED <<variant, world, apiKey, body, upstream, responses, running, overlapped, pvars>>

\* the parser is called with the answer's content
CallParser(r) ==
    /\ hpc[r] = "parse"
    /\ running = r
    /\ ParseEnter(Argument(r))
    /\ hpc' = [hpc EXCEPT ![r] = "parsing"]
    /\ Stage(r, "parse")
    /\ UNCHANGED <<variant, world, apiKey, body, upstream, error, responses, running, overlapped>>

InParser == running # 0 /\ hpc[running] = "parsing"

Split_ == InParser /\ ParseSplit /\ UNCHANGED <<variant, world, apiKey, hvars>>
Section_ == InParser /\ ParseSection /\ UNCHANGED <<variant, world, apiKey, hvars>>
LoopExit_ == InParser /\ ParseLoopExit /\ UNCHANGED <<variant, world, apiKey, hvars>>
Fallback_ == InParser /\ ParseFallback /\ UNCHANGED <<variant, world, apiKey, hvars>>
Catch_ == InParser /\ ParseCatch /\ UNCHANGED <<variant, world, apiKey, hvars>>
Return_ == InParser /\ ParseReturn /\ UNCHANGED <<variant, world, apiKey, hvars>>

SuccessResponse(list) ==
    [status |-> 200, success |-> TRUE, scholarships |-> list, total |-> Len(list)]

\* the parser has returned: res.json({ success: true, ... })
SendSuccess(r) ==
    /\ hpc[r] = "parsing"
    /\ running = r
    /\ ppc = "done"
    /\ ppc' = "idle"
    /\ Send(r, SuccessResponse(result))
    /\ UNCHANGED <<variant, world, apiKey, body, upstream, error, trace, overlapped,
                   responseText, sections, idx, scholarships, caught, result, visited>>

\* the catch block's classification of the error
Classify(err) ==
    IF variant = "rich"
    THEN IF err.code \in {"ECONNABORTED", "ETIMEDOUT"}
         THEN ErrorResponse(408, "Search request timed out. Please try again.")
         ELSE IF err.status = 401
         THEN ErrorResponse(500, "API authentication failed. Please contact support.")
         ELSE IF err.status = 429
         THEN ErrorResponse(429, "Too many requests. Please wait and try again.")
         ELSE IF err.status = 400
         THEN ErrorResponse(400, "Invalid request format. Please check your input.")
         ELSE ErrorResponse(500, "Failed to search scholarships. Please try again.")
    ELSE IF err.code = "ECONNABORTED"
         THEN ErrorResponse(408, "Search timeout. Please try again.")
         ELSE IF err.status = 401
         THEN ErrorResponse(500, "API authentication failed")
         ELSE IF err.status = 429
         THEN ErrorResponse(429, "Too many requests. Please wait and try again.")
         ELSE ErrorResponse(500, "Failed to search scholarships. Please try again.")

Catch(r) ==
    /\ hpc[r] = "catch"
    /\ running = r
    /\ Send(r, Classify(error[r]))
    /\ UNCHANGED <<variant, world, apiKey, body, upstream, error, trace, overlapped, pvars>>

Next ==
    \/ \E r \in Requests : Arrive(r)
    \/ \E r \in Requests : ValidateFields(r)
    \/ \E r \in Requests : CheckKey(r)
    \/ \E r \in Requests : CallUpstream(r)
    \/ \E r \in Requests : Settle(r)
    \/ \E r \in Requests : Resume(r)
    \/ \E r \in Requests : CheckStatus(r)
    \/ \E r \in Requests : CheckContent(r)
    \/ \E r \in Requests : CallParser(r)
    \/ Split_
    \/ Section_
    \/ LoopExit_
    \/ Fallback_
    \/ Catch_
    \/ Return_
    \/ \E r \in Requests : SendSuccess(r)
    \/ \E r \in Requests : Catch(r)

\* one request, with every answer of SingleContents
Spec == Init /\ [][Next]_vars

\* overlapping requests, with the answers of ConcurrentContents
SpecServer == InitServer /\ [][Next]_vars

\* a step of request r's handler
HandlerStep(r) ==
    \/ ValidateFields(r) \/ CheckKey(r) \/ CallUpstream(r) \/ Resume(r) \/ CheckStatus(r)
    \/ CheckContent(r) \/ CallParser(r) \/ SendSuccess(r) \/ Catch(r)

\* the parser, once called, goes on: in each of its positions before the
\* return one of Split_ .. Return_ can be taken, and each of them moves the
\* position or the loop's index
ParserAdvance ==
    /\ InParser
    /\ ppc \in {"split", "loop", "fallback", "catch", "return"}
    /\ \E p \in {"loop", "fallback", "catch", "return", "done"}, i \in {idx, idx + 1} :
           /\ <<p, i>> # <<ppc, idx>>
           /\ ppc' = p
           /\ idx' = i

\* the event loop runs every continuation that is ready, synchronous code
\* runs on, and the outbound call settles: with an answer, with a transport
\* error, or by the timeout of 30000 ms that the call is given.  Nothing
\* makes a request arrive.
Fairness ==
    /\ \A r \in Requests : WF_vars(HandlerStep(r)) /\ WF_vars(Settle(r))
    /\ WF_<<ppc, idx>>(ParserAdvance)

\* overlapping requests on a server that keeps running
SpecLive == InitServer /\ [][Next]_vars /\ Fairness

(***************************************************************************)
(* Properties of the parser (checked under Spec)                           *)
(***************************************************************************)
\* the parser has returned and the handler has not yet used the result
Returned == ppc = "done"

\* the candidates the loop has accepted, in the order of their sections
AcceptedEntry(e) == e.kind = "built" /\ e.valid
AcceptedSoFar ==
    LET entries == SelectSeq(visited, AcceptedEntry)
    IN  [i \in 1..Len(entries) |-> entries[i].candidate]

TypeWords == {"scholarship", "grant", "fellowship", "award", "scheme"}
BearsTypeWord(name) == \E w \in TypeWords : includes(toLowerCase(name), w)

InCatalog(record) == \E k \in 1..Len(Fallback(variant)) : Fallback(variant)[k] = record
InAccepted(record) == \E k \in 1..Len(AcceptedSoFar) : AcceptedSoFar[k] = record

\* the name the name extractor gives when no pattern matches
DefaultName == IF variant = "rich" THEN RichDefaultName ELSE SimpleDefaultName

\* C1: whatever the parser is handed, the list it returns has between 1 and
\* 8 records.  (Refuted: an answer whose content is no string makes split
\* throw, the catch block only logs, and the empty list is returned.)
C1_OneToEightRecords == Returned => Len(result) >= 1 /\ Len(result) <= 8

\* C2: when an error occurs inside the parser, it is caught and the list
\* returned is the fallback catalog.  (Refuted: the error is caught, but
\* the catalog is not put in; the list returned is empty.)
C2_FaultGivesCatalog == (Returned /\ caught) => result = Fallback(variant)

\* C3: every record the parser returns, extracted or from the catalog, has
\* a non-empty name that contains, in any letter case, one of scholarship,
\* grant, fellowship, award, scheme.
C3_NamesBearTypeWord ==
    Returned => \A i \in 1..Len(result) :
                    Len(result[i].name) > 0 /\ BearsTypeWord(result[i].name)

\* an extracted record is returned, from an answer of which another section
\* gave a candidate whose name has no type word
C3_Witness ==
    /\ Returned
    /\ Len(result) > 0
    /\ ~InCatalog(result[1])
    /\ \E i \in 1..Len(visited) :
          /\ visited[i].kind = "built"
          /\ ~visited[i].valid
          /\ ~BearsTypeWord(visited[i].candidate.name)

\* C4: every record the parser returns has a link that new URL() accepts.
\* (Refuted: the simpler variant returns the first http(s):// match as it
\* is, without validating it.)
C4_LinksAreValid == Returned => \A i \in 1..Len(result) : IsValidURL(result[i].link)

\* C5: the catalog is substituted exactly when the loop has run through the
\* sections and has accepted no candidate: then the list returned is the
\* whole catalog in its order; when a candidate was accepted, the list holds
\* no catalog entry, only accepted candidates.
C5_CatalogIffNoneAccepted ==
    Returned =>
        /\ (result = Fallback(variant)) <=> (~caught /\ Len(AcceptedSoFar) = 0)
        /\ (\E i \in 1..Len(result) : InCatalog(result[i])) => result = Fallback(variant)
        /\ Len(AcceptedSoFar) > 0 => \A i \in 1..Len(result) : InAccepted(result[i])

\* the loop has built candidates and rejected every one, and the whole
\* catalog is returned
C5_Witness ==
    /\ Returned
    /\ ~caught
    /\ \E i \in 1..Len(visited) : visited[i].kind = "built"
    /\ Len(AcceptedSoFar) = 0
    /\ result = Fallback(variant)
    /\ Len(result) = Len(Fallback(variant))

\* C6: when in no section of sufficient length the name extractor finds a
\* match (it gives its default name for each), the list returned is the
\* catalog.  (Refuted: in the simpler variant the default name 'Educational
\* Grant' passes the validator and is returned as a record.)
C6_NoNameGivesCatalog ==
    ( /\ Returned
      /\ ~caught
      /\ \A i \in 1..Len(visited) :
            visited[i].kind = "built" => visited[i].candidate.name = DefaultName )
    => result = Fallback(variant)

\* C7: when n >= 1 candidates are accepted, the list returned is the first
\* min(n, 8) of them in the order of their sections.
C7_FirstEightInOrder ==
    (Returned /\ Len(AcceptedSoFar) > 0)
    => /\ Len(result) <= 8
       /\ Len(result) = (IF Len(AcceptedSoFar) < 8 THEN Len(AcceptedSoFar) ELSE 8)
       /\ \A i \in 1..Len(result) : result[i] = AcceptedSoFar[i]

\* an answer of 12 sections and more, of which more than 8 were accepted,
\* gave a list of 8
C7_Witness ==
    /\ Returned
    /\ Len(sections) >= 12
    /\ Len(AcceptedSoFar) > 8
    /\ Len(result) = 8

(***************************************************************************)
(* Properties of the handler (checked under SpecServer)                    *)
(***************************************************************************)
\* request r was answered with the success envelope
Answered(r) == hpc[r] = "done" /\ Len(responses[r]) = 1 /\ responses[r][1].success

\* C8: two calls of the parser on the same text, whatever was parsed
\* between them, return the same list.
C8_SameTextSameList ==
    \A r1, r2 \in Requests :
        (Answered(r1) /\ Answered(r2) /\ upstream[r1].content = upstream[r2].content)
        => responses[r1][1].scholarships = responses[r2][1].scholarships

\* two requests got the same text for an answer and both were answered with
\* a list that is not empty
C8_Witness ==
    /\ Answered(1)
    /\ Answered(2)
    /\ IsString(upstream[1].content)
    /\ upstream[1].content = upstream[2].content
    /\ Len(responses[1][1].scholarships) > 0

\* the stages a request goes through up to the call of the parser
StagesToParse ==
    IF variant = "rich"
    THEN <<"received", "fields", "key", "call", "resolved", "status", "content", "parse">>
    ELSE <<"received", "fields", "key", "call", "resolved", "content", "parse">>

Times(r, stage) == Cardinality({i \in 1..Len(trace[r]) : trace[r][i] = stage})

FieldsPresent(r) == body[r].collegeName # "missing" /\ body[r].course # "missing"

\* C9: for one request the parser is called at most once, and only after the
\* required fields were found present, then the credential found set, then
\* the one outbound call resolved with a success status and content that is
\* not empty; without a required field or the credential no call is made.
C9_ParseOnlyAfterChecks ==
    /\ \A r \in Requests :
          /\ Times(r, "parse") <= 1
          /\ Times(r, "call") <= 1
          /\ Times(r, "call") = 1 => FieldsPresent(r) /\ apiKey
          /\ hpc[r] = "parsing" => Times(r, "parse") = 1
          /\ Times(r, "parse") = 1 =>
                /\ trace[r] = StagesToParse
                /\ FieldsPresent(r)
                /\ apiKey
                /\ upstream[r].kind = "response"
                /\ upstream[r].status >= 200 /\ upstream[r].status < 300
                /\ ~FalsyContent(upstream[r].content)
    /\ ppc \notin {"idle", "done"} => running # 0 /\ hpc[running] = "parsing"

\* one request was parsed and answered, another was refused for a missing
\* field without any outbound call
C9_Witness ==
    \E r1, r2 \in Requests :
        /\ Answered(r1)
        /\ Times(r1, "parse") = 1
        /\ hpc[r2] = "done"
        /\ ~FieldsPresent(r2)
        /\ Times(r2, "call") = 0

\* C10: a failed outbound call is answered by its class: a timeout with 408
\* and a timeout message, an upstream 401 with the authentication message,
\* an upstream 429 with 429 and the too-many-requests message, each with
\* success = false.  (Refuted: the richer variant lets axios resolve every
\* status below 500 and throws a plain Error for a status other than 200,
\* so a 401 and a 429 get the generic 500 answer.)
C10_FailureClasses ==
    \A r \in Requests :
        (hpc[r] = "done" /\ upstream[r] # NoUpstream) =>
            LET resp == responses[r][1]
            IN  /\ (upstream[r].kind = "error" /\ upstream[r].code = "ECONNABORTED")
                   => /\ resp.status = 408
                      /\ ~resp.success
                      /\ resp.error \in {"Search request timed out. Please try again.",
                                         "Search timeout. Please try again."}
                /\ (upstream[r].kind = "response" /\ upstream[r].status = 401)
                   => /\ ~resp.success
                      /\ resp.error \in {"API authentication failed. Please contact support.",
                                         "API authentication failed"}
                /\ (upstream[r].kind = "response" /\ upstream[r].status = 429)
                   => /\ resp.status = 429
                      /\ ~resp.success
                      /\ resp.error = "Too many requests. Please wait and try again."

RECURSIVE LoopAlone(_, _, _, _)
\* the loop of variant v over the sections secs from section i on, started
\* with the collection acc and run with nothing else going on
LoopAlone(v, secs, i, acc) ==
    IF i > Len(secs) \/ (v = "rich" /\ Len(acc) >= RichCollectCap) THEN acc
    ELSE LET section == Section(v, secs[i])
         IN  LoopAlone(v, secs, i + 1,
                       IF Len(section) < MinSectionLen(v) THEN acc
                       ELSE IF Valid(v, Candidate(v, section))
                       THEN Append(acc, Candidate(v, section))
                       ELSE acc)

\* the list the parser of variant v yields for an answer's content, as one
\* expression
ParseAlone(v, content) ==
    IF ~IsString(content) THEN <<>>
    ELSE LET acc == LoopAlone(v, Split(SplitPattern(v), content.text), 1, <<>>)
         IN  SliceTo(IF Len(acc) = 0 THEN Fallback(v) ELSE acc, ReturnCap)

\* ParseAlone, tabulated for the answers of overlapping requests
AloneTable ==
    {[variant |-> v, content |-> c, list |-> ParseAlone(v, c)] :
        v \in {"rich", "simple"}, c \in ConcurrentContents}

ListAlone(v, content) ==
    (CHOOSE e \in AloneTable : e.variant = v /\ e.content = content).list

\* C11: however two requests in flight interleave at the outbound call,
\* the list in each one's response is the list the parser yields for that
\* request's own answer, run alone.
C11_OwnAnswerOnly ==
    \A r \in Requests :
        Answered(r) => responses[r][1].scholarships = ListAlone(variant, upstream[r].content)

\* two requests were pending at once, got different texts and were both
\* answered
C11_Witness ==
    /\ overlapped
    /\ Answered(1)
    /\ Answered(2)
    /\ IsString(upstream[1].content)
    /\ IsString(upstream[2].content)
    /\ upstream[1].content # upstream[2].content
    /\ responses[1][1].scholarships # responses[2][1].scholarships

(***************************************************************************)
(* The validator, the loop's bound and the segmenter                       *)
(***************************************************************************)
\* the validator as it is described: the name has at least 8 characters (10
\* in the simpler variant) and at most 200, bears neither "here are" nor
\* "following" (richer variant), and bears a type word
StatedValid(v, name) ==
    /\ Len(name) >= (IF v = "rich" THEN 8 ELSE 10)
    /\ Len(name) <= 200
    /\ v = "rich" => /\ ~includes(toLowerCase(name), "here are")
                     /\ ~includes(toLowerCase(name), "following")
    /\ BearsTypeWord(name)

\* C12: the validator accepts a candidate exactly when its name has at
\* least 8 characters (10 in the simpler variant) and at most 200, bears
\* neither "here are" nor "following" (richer variant) and bears one of
\* scholarship, grant, fellowship, award, scheme; any other candidate leaves
\* the collection as it was.  (Refuted by the simpler variant, whose
\* validator knows only scholarship, grant and award, asks for more than 10
\* characters and has no upper bound.)
C12_ValidatorAsStated ==
    /\ \A i \in 1..Len(visited) :
           visited[i].kind = "built"
           => (visited[i].valid <=> StatedValid(variant, visited[i].candidate.name))
    /\ ppc = "loop" => scholarships = AcceptedSoFar


\* how many of the first n iterations accepted their candidate
AcceptedBefore(n) == Len(SelectSeq(SubSeq(visited, 1, n), AcceptedEntry))

\* C13: while the loop runs the collection never holds more than 10
\* candidates, and once it holds 10 no further section is extracted or
\* validated, so that the list is cut to 8 from a collection of at most 10.
\* (Refuted by the simpler variant, whose loop has no bound: it visits every
\* section and collects every valid candidate.)
C13_AtMostTenCollected ==
    /\ Len(scholarships) <= RichCollectCap
    /\ \A i \in 1..Len(visited) : AcceptedBefore(i - 1) < RichCollectCap


\* the text has been split
Segmented == ppc \in {"loop", "fallback", "return", "done"} /\ ~caught

\* where segment i begins in the text if no character was lost before it
OffsetOf(i) == Len(join(SubSeq(sections, 1, i - 1), ""))

\* C14: the segmenter consumes no boundary marker: the segments, joined in
\* order, are the raw text character for character, every segment after
\* the first begins where a marker begins in the text, and the loop is
\* handed the segments in the order of the document.  (Refuted by the
\* simpler variant, whose split pattern is no lookahead: the markers are
\* the separators, and split drops them.)
C14_SegmentsKeepMarkers ==
    Segmented
    => /\ join(sections, "") = responseText.text
       /\ \A i \in 2..Len(sections) :
              Match(SplitPattern(variant), Chars(responseText.text), OffsetOf(i)) # NoMatch
       /\ \A i \in 1..Len(visited) :
              visited[i] = Seen(Section(variant, sections[i]),
                                Candidate(variant, Section(variant, sections[i])))


(***************************************************************************)
(* Responses (checked under SpecLive)                                      *)
(***************************************************************************)
\* the request has arrived and its handler has been entered
Arrived(r) == Len(trace[r]) > 0

\* the success envelope, or an error envelope
WellFormed(resp) ==
    IF resp.success
    THEN resp.total = Len(resp.scholarships)
    ELSE resp = ErrorResponse(resp.status, resp.error)

\* no request has two responses, and the handler is left with the one
\* response sent
OneResponseAtMost ==
    \A r \in Requests :
        /\ Len(responses[r]) <= 1
        /\ hpc[r] = "done" <=> Len(responses[r]) = 1
        /\ \A k \in 1..Len(responses[r]) : WellFormed(responses[r][k])

\* C15: every request that arrives gets exactly one response, whichever way
\* it takes through the handler: the success envelope, whose total is the
\* number of its records, or an error envelope; none gets two, and, the
\* outbound call settling, none is left without.
C15_ExactlyOneResponse ==
    /\ []OneResponseAtMost
    /\ \A r \in Requests : Arrived(r) ~> (hpc[r] = "done" /\ Len(responses[r]) = 1)

\* two overlapping requests are both answered, one with the success
\* envelope and one, its outbound call failed, with an error envelope
C15_Witness ==
    /\ overlapped
    /\ Answered(1)
    /\ responses[1][1].total = Len(responses[1][1].scholarships)
    /\ hpc[2] = "done"
    /\ Len(responses[2]) = 1
    /\ ~responses[2][1].success
    /\ upstream[2].kind = "error"

====
